---- MODULE Spec2Model ----
(***************************************************************************)
(* A model of the three TCaptcha userscripts of the repository:            *)
(*   "refactored"  src/unnamed/part_000           (local OpenCV, v14)      *)
(*   "minified"    src/claude_minfy_slop.user.js  (local OpenCV, v14)      *)
(*   "remote"      src/60%slop.user.js            (remote inference, v23)  *)
(* JavaScript arrays are modelled as sequences; an array index k is the    *)
(* sequence position k + 1, and the index a decision returns is 0-based,   *)
(* -1 meaning "no decision".                                               *)
(***************************************************************************)
EXTENDS Integers, Sequences, FiniteSets, TLC

\* ------------------------------------------------------------------ bounds
MaxImages == 3
MaxCount == 2
MaxTarget == 3
LocalMaxImages == 2
MaxPasses == 2
RemoteMaxImages == 2
MaxMoves == 2
MaxNodes == 2
MaxShapes == 3

VARIABLES
  results,      \* decision step: the ordered per-image result list handed to it
  logic,        \* decision step: the parsed rule {type, target}
  outlierIndex, \* decision step: data.outlier_index of the remote service's answer
  decision,     \* decision step: the value the predictor returned
  engine,       \* decision step: which script's predictor produced `decision`
  marked,       \* local scripts: index of the card marked PREDICTION, or -1
  scheduled     \* remote script: index handed to the auto-solve timer, or -1

decideVars == <<results, logic, outlierIndex, decision, engine, marked, scheduled>>

VARIABLES
  script,     \* local scripts: which of the two runs ("refactored" or "minified")
  tc,         \* local scripts: the host's TCaptcha object as the script sees it
  cvReady,    \* local scripts: typeof cv !== 'undefined' && cv.Mat
  started,    \* local scripts: FALSE while start() is still polling
  timers,     \* local scripts: pending setTimeout(() => refresh(), delay)
  passes,     \* local scripts: one record per refresh() call that began analysing
  ui          \* local scripts: the panel (visibility, status line, grid owner)

localVars == <<script, tc, cvReady, started, timers, passes, ui>>

VARIABLES
  rtc,        \* remote script: the host's TCaptcha object as the script sees it
  rstarted,   \* remote script: FALSE while start() is still polling
  lastId,     \* remote script: CaptchaController.lastId
  rtimers,    \* remote script: pending setTimeout(() => #refresh(), UPDATE_DELAY)
  rpasses,    \* remote script: one record per #refresh() call that sent a request
  autoSolves, \* remote script: pending auto-solve timers (pass, winner index)
  moves       \* remote script: how often the host has changed its challenge

remoteVars == <<rtc, rstarted, lastId, rtimers, rpasses, autoSolves, moves>>

VARIABLES
  instruction,  \* parser runs: task.str as the script finds it
  parser,       \* "none" | "refactored" | "minified" | "remote"
  parseResult   \* what the parser returned, or that it threw

parseVars == <<instruction, parser, parseResult>>

VARIABLES
  imageIn,      \* vision runs: the image handed to analyze
  vscript,      \* "none" | "refactored" | "minified"
  rectangles,   \* the boxes filterRectangularContours found
  boxes,        \* the boxes left after suppression
  analyzed,     \* what analyze returned
  matrices,     \* native buffers of the run: acquired and released, by kind
  suppressed    \* suppression applied once more to the boxes it left

visionVars == <<imageIn, vscript, rectangles, boxes, analyzed, matrices, suppressed>>

pureVars == <<parseVars, visionVars>>

vars == <<decideVars, localVars, remoteVars, pureVars>>

\* ---------------------------------------------------------- configuration
AUTO_SOLVE == TRUE
AUTO_SUBMIT == TRUE

\* ------------------------------------------------------------ JS built-ins
Abs(x) == IF x < 0 THEN -x ELSE x

SetMin(S) == CHOOSE x \in S : \A y \in S : x <= y

ElementsOf(s) == {s[i] : i \in 1..Len(s)}

\* Array.prototype.sort with a comparator: stable (ECMAScript 2019), so the
\* result is the unique stable ordering; computed here by stable insertion.
\* The comparator is handed over as its table cmp[<<a, b>>] on the elements.
InsertStable(sorted, x, cmp) ==
  LET after == {i \in 1..Len(sorted) : cmp[<<sorted[i], x>>] > 0}
      pos == IF after = {} THEN Len(sorted) + 1 ELSE SetMin(after)
  IN SubSeq(sorted, 1, pos - 1) \o <<x>> \o SubSeq(sorted, pos, Len(sorted))

ArraySort(s, cmp) ==
  LET F[n \in 0..Len(s)] ==
        IF n = 0 THEN <<>> ELSE InsertStable(F[n - 1], s[n], cmp)
  IN F[Len(s)]

\* Array.prototype.find(test): the first element satisfying the test; given
\* the positions that satisfy it, the first of them (none: undefined).
FindFirst(hits) == SetMin(hits)

\* ------------------------------------------------------------ JS strings
\* A string is the sequence of its characters (one-character strings).
\* String.prototype.includes: the phrase occurs as a substring.
Includes(text, phrase) ==
  \E i \in 0..(Len(text) - Len(phrase)) :
    \A j \in 1..Len(phrase) : text[i + j] = phrase[j]

SetMax(S) == CHOOSE x \in S : \A y \in S : x >= y

\* \s of a regular expression and the white space of trim().
IsSpace(c) == c \in {" ", "\t", "\n"}

UpperCase ==
  <<"A", "B", "C", "D", "E", "F", "G", "H", "I", "J", "K", "L", "M",
    "N", "O", "P", "Q", "R", "S", "T", "U", "V", "W", "X", "Y", "Z">>

LowerCase ==
  <<"a", "b", "c", "d", "e", "f", "g", "h", "i", "j", "k", "l", "m",
    "n", "o", "p", "q", "r", "s", "t", "u", "v", "w", "x", "y", "z">>

toLowerCase(s) ==
  [i \in 1..Len(s) |->
     IF \E k \in 1..Len(UpperCase) : UpperCase[k] = s[i]
     THEN LowerCase[CHOOSE k \in 1..Len(UpperCase) : UpperCase[k] = s[i]]
     ELSE s[i]]

trim(s) ==
  LET ink == {i \in 1..Len(s) : ~IsSpace(s[i])}
  IN IF ink = {} THEN <<>> ELSE SubSeq(s, SetMin(ink), SetMax(ink))

\* s.replace(/\s+/g, ' '): every maximal run of white space becomes one space.
collapseSpaces(s) ==
  LET F[n \in 0..Len(s)] ==
        IF n = 0 THEN <<>>
        ELSE IF ~IsSpace(s[n]) THEN Append(F[n - 1], s[n])
        ELSE IF n > 1 /\ IsSpace(s[n - 1]) THEN F[n - 1]
        ELSE Append(F[n - 1], " ")
  IN F[Len(s)]

\* s.replace(/\s/g, '')
removeSpaces(s) ==
  LET F[n \in 0..Len(s)] ==
        IF n = 0 THEN <<>>
        ELSE IF IsSpace(s[n]) THEN F[n - 1] ELSE Append(F[n - 1], s[n])
  IN F[Len(s)]

\* s.split(sep) for a one-character separator: the pieces between the
\* separators, one more than there are separators ('' gives ['']).
AppendToLast(pieces, c) == [pieces EXCEPT ![Len(pieces)] = Append(@, c)]

split(s, sep) ==
  LET F[n \in 0..Len(s)] ==
        IF n = 0 THEN << <<>> >>
        ELSE IF s[n] = sep THEN Append(F[n - 1], <<>>)
        ELSE AppendToLast(F[n - 1], s[n])
  IN F[Len(s)]

\* textContent.toLowerCase().replace(/\s+/g, ' ').trim()
normalize(s) == trim(collapseSpaces(toLowerCase(s)))

\* ------------------------------------------------------------ JS numbers
\* An integer-valued JS number is held as hi * 65536 + lo with lo in
\* 0..65535 and hi of either sign, so that a parsed number wider than 32
\* bits still has a value; NumberOf gives it back where it fits.
NumberOf(n) == n.hi * 65536 + n.lo

JSNumber(n) == [hi |-> n \div 65536, lo |-> n % 65536]

Digits == {"0", "1", "2", "3", "4", "5", "6", "7", "8", "9"}

DigitValue(c) ==
  CASE c = "0" -> 0 [] c = "1" -> 1 [] c = "2" -> 2 [] c = "3" -> 3
    [] c = "4" -> 4 [] c = "5" -> 5 [] c = "6" -> 6 [] c = "7" -> 7
    [] c = "8" -> 8 [] c = "9" -> 9

\* parseInt(ds, 10) of a string of decimal digits.
\* n * 10 + d on the two halves of a number.
TimesTenPlus(n, d) ==
  [hi |-> n.hi * 10 + ((n.lo * 10 + d) \div 65536), lo |-> (n.lo * 10 + d) % 65536]

parseInt(ds) ==
  LET F[k \in 0..Len(ds)] ==
        IF k = 0 THEN JSNumber(0) ELSE TimesTenPlus(F[k - 1], DigitValue(ds[k]))
  IN F[Len(ds)]

\* x | 0: ToInt32, the number modulo 2^32 read as a signed 32-bit integer.
ToInt32(n) == [hi |-> ((n.hi + 32768) % 65536) - 32768, lo |-> n.lo]

\* The maximal run of digits of text that starts at position j.
DigitsAt(text, j) ==
  LET stop == {k \in j..(Len(text) + 1) : k > Len(text) \/ text[k] \notin Digits}
  IN SubSeq(text, j, SetMin(stop) - 1)

\* The first position from j on that holds no white space.
SkipSpaces(text, j) ==
  SetMin({k \in j..(Len(text) + 1) : k > Len(text) \/ ~IsSpace(text[k])})

exactly == <<"e", "x", "a", "c", "t", "l", "y">>

\* text.match(/exactly\s*(\d+)/): the positions where "exactly", any white
\* space and at least one digit follow each other; match() takes the first.
ExactlyMatches(text) ==
  {i \in 1..Len(text) :
     /\ i + Len(exactly) - 1 <= Len(text)
     /\ SubSeq(text, i, i + Len(exactly) - 1) = exactly
     /\ DigitsAt(text, SkipSpaces(text, i + Len(exactly))) # <<>>}

\* match[1] of the first match.
ExactlyDigits(text) ==
  DigitsAt(text, SkipSpaces(text, SetMin(ExactlyMatches(text)) + Len(exactly)))

\* ------------------------------------------------- instruction markup
\* What DOMParser makes of task.str: the style attribute of the body element
\* and the elements below it in document order, each with its style
\* attribute and its own text, both as written in the markup.
Concat(texts) ==
  LET F[n \in 0..Len(texts)] == IF n = 0 THEN <<>> ELSE F[n - 1] \o texts[n]
  IN F[Len(texts)]

\* ------------------------------------------- refactored: LogicParser.parse
normalizePart(part) == toLowerCase(trim(part))

\* [property, value] = rule.split(':').map(part => part?.trim().toLowerCase())
\* takes the first two pieces; a rule without ':' has no value.
declarationIsHidden(rule) ==
  LET parts == split(rule, ":")
      property == normalizePart(parts[1])
  IN /\ Len(parts) >= 2
     /\ \/ property = <<"d", "i", "s", "p", "l", "a", "y">> /\ normalizePart(parts[2]) = <<"n", "o", "n", "e">>
        \/ /\ property = <<"v", "i", "s", "i", "b", "i", "l", "i", "t", "y">>
           /\ normalizePart(parts[2]) = <<"h", "i", "d", "d", "e", "n">>

isHidden(styleAttr) ==
  LET rules == split(styleAttr, ";")
  IN \E i \in 1..Len(rules) : declarationIsHidden(rules[i])

\* doc.body.textContent after element.remove() of every hidden element;
\* removing the body itself leaves doc.body null and the read throws.
bodyText(html) ==
  Concat([i \in 1..Len(html.nodes) |->
            IF isHidden(html.nodes[i].style) THEN <<>> ELSE html.nodes[i].text])

LogicParser_parse(html) ==
  IF isHidden(html.bodyStyle) THEN [threw |-> TRUE]
  ELSE LET text == normalize(bodyText(html))
       IN IF Includes(text, <<"h", "i", "g", "h", "e", "s", "t", " ", "n", "u",
                            "m", "b", "e", "r">>)
          THEN [threw |-> FALSE, type |-> "MAX", target |-> JSNumber(0),
                text |-> text]
          ELSE IF Includes(text, exactly)
          THEN [threw |-> FALSE, type |-> "EXACT",
                target |-> IF ExactlyMatches(text) # {}
                           THEN parseInt(ExactlyDigits(text)) ELSE JSNumber(0),
                text |-> text]
          ELSE [threw |-> FALSE, type |-> "UNKNOWN", target |-> JSNumber(0),
                text |-> text]

\* ------------------------------------------------------- minified: parse
\* target = type === 'EXACT' ? (txt.match(/exactly\s*(\d+)/)?.[1] | 0) : 0
parse(html) ==
  IF isHidden(html.bodyStyle) THEN [threw |-> TRUE]
  ELSE LET txt == normalize(bodyText(html))
           type == IF Includes(txt, <<"h", "i", "g", "h", "e", "s", "t", " ",
                                    "n", "u", "m", "b", "e", "r">>)
                   THEN "MAX"
                   ELSE IF Includes(txt, exactly) THEN "EXACT"
                   ELSE "UNKNOWN"
       IN [threw |-> FALSE, type |-> type,
           target |-> IF type = "EXACT" /\ ExactlyMatches(txt) # {}
                      THEN ToInt32(parseInt(ExactlyDigits(txt)))
                      ELSE JSNumber(0),
           text |-> txt]

NoDecision == [index |-> -1, isApproximate |-> FALSE]

\* ------------------------------------------- refactored: PredictionEngine
cmpMaximumNoTieBreak(a, b) == b.empty - a.empty

cmpMaximum(a, b) ==
  IF b.empty # a.empty THEN b.empty - a.empty ELSE a.total - b.total

predictMaximum(res) ==
  LET sorted == ArraySort(res, [p \in ElementsOf(res) \X ElementsOf(res) |->
                                 cmpMaximum(p[1], p[2])])
  IN [index |-> IF Len(sorted) > 0 /\ sorted[1].empty > 0
                THEN sorted[1].index ELSE -1,
      isApproximate |-> FALSE]

cmpExactSigned(a, b, targetCount) ==
  (a.empty - targetCount) - (b.empty - targetCount)

cmpExact(a, b, targetCount) ==
  Abs(a.empty - targetCount) - Abs(b.empty - targetCount)

closestOf(res, targetCount) ==
  ArraySort(res, [p \in ElementsOf(res) \X ElementsOf(res) |->
                    cmpExact(p[1], p[2], targetCount)])

predictExactFindLast(res, targetCount) ==
  LET hits == {i \in 1..Len(res) : res[i].empty = targetCount}
      closest == closestOf(res, targetCount)
  IN IF hits # {}
     THEN [index |-> res[CHOOSE i \in hits : \A j \in hits : j <= i].index,
           isApproximate |-> FALSE]
     ELSE [index |-> IF Len(closest) > 0 THEN closest[1].index ELSE -1,
           isApproximate |-> TRUE]

predictExactAlwaysApprox(res, targetCount) ==
  LET closest == closestOf(res, targetCount)
  IN [index |-> IF Len(closest) > 0 THEN closest[1].index ELSE -1,
      isApproximate |-> TRUE]

predictExactDefaultZero(res, targetCount) ==
  LET hits == {i \in 1..Len(res) : res[i].empty = targetCount}
      closest == closestOf(res, targetCount)
  IN IF hits # {}
     THEN [index |-> res[FindFirst(hits)].index, isApproximate |-> FALSE]
     ELSE [index |-> IF Len(closest) > 0 THEN closest[1].index ELSE 0,
           isApproximate |-> TRUE]

predictExact(res, targetCount) ==
  LET hits == {i \in 1..Len(res) : res[i].empty = targetCount}
      closest == closestOf(res, targetCount)
  IN IF hits # {}
     THEN [index |-> res[FindFirst(hits)].index, isApproximate |-> FALSE]
     ELSE [index |-> IF Len(closest) > 0 THEN closest[1].index ELSE -1,
           isApproximate |-> TRUE]

predictFallsThroughToExact(res, lg) ==
  IF lg.type = "MAX" THEN predictMaximum(res) ELSE predictExact(res, lg.target)

PredictionEngine_predict(res, lg) ==
  IF lg.type = "MAX" THEN predictMaximum(res)
  ELSE IF lg.type = "EXACT" THEN predictExact(res, lg.target)
  ELSE NoDecision

\* ----------------------------------------------------- minified: predict
\* The minified script names the result fields {i, empty, total} and the
\* decision fields {idx, approx}; the model keeps one record shape for both
\* local scripts (index = i, isApproximate = approx).
min_cmpMax(a, b) ==
  IF b.empty - a.empty # 0 THEN b.empty - a.empty ELSE a.total - b.total

min_cmpExact(a, b, target) == Abs(a.empty - target) - Abs(b.empty - target)

predict(res, lg) ==
  IF lg.type = "MAX"
  THEN LET s == ArraySort(res, [p \in ElementsOf(res) \X ElementsOf(res) |->
                                  min_cmpMax(p[1], p[2])])
       IN [index |-> IF Len(s) > 0 /\ s[1].empty > 0 THEN s[1].index ELSE -1,
           isApproximate |-> FALSE]
  ELSE IF lg.type = "EXACT"
  THEN LET ex == {i \in 1..Len(res) : res[i].empty = lg.target}
           cl == ArraySort(res, [p \in ElementsOf(res) \X ElementsOf(res) |->
                                   min_cmpExact(p[1], p[2], lg.target)])
       IN IF ex # {}
          THEN [index |-> res[FindFirst(ex)].index, isApproximate |-> FALSE]
          ELSE [index |-> IF Len(cl) > 0 THEN cl[1].index ELSE -1,
                isApproximate |-> TRUE]
  ELSE NoDecision

\* ------------------------------------- remote: winner of CaptchaController
\* counts.indexOf(Math.max(...counts)): the first position holding the
\* largest count; Math.max() of no arguments is -Infinity, which indexOf
\* does not find in an empty array (-1).
indexOfMax(counts) ==
  IF Len(counts) = 0 THEN -1
  ELSE LET m == CHOOSE c \in {counts[i] : i \in 1..Len(counts)} :
                  \A i \in 1..Len(counts) : counts[i] <= c
       IN SetMin({i \in 1..Len(counts) : counts[i] = m}) - 1

\* let minDiff = Infinity; counts.forEach((c, i) => { if (diff < minDiff) ... }).
\* minDiff is Infinity exactly while winnerIdx is still -1.
closestLoop(counts, target) ==
  LET F[n \in 0..Len(counts)] ==
        IF n = 0 THEN [minDiff |-> 0, winnerIdx |-> -1]
        ELSE LET prev == F[n - 1]
                 diff == Abs(counts[n] - target)
             IN IF prev.winnerIdx = -1 \/ diff < prev.minDiff
                THEN [minDiff |-> diff, winnerIdx |-> n - 1]
                ELSE prev
  IN F[Len(counts)].winnerIdx

countsWinner(counts, lg) ==
  IF lg.type = "MAX" THEN indexOfMax(counts)
  ELSE IF lg.type = "EXACT" THEN closestLoop(counts, lg.target)
  ELSE -1

\* OUTLIER branch: isWinner = (r.index === data.outlier_index) for each
\* element of data.results; #render takes results.findIndex(r => r.isWinner).
outlierWinner(indexes, outlier_index) ==
  LET w == {i \in 1..Len(indexes) : indexes[i] = outlier_index}
  IN IF w = {} THEN -1 ELSE SetMin(w) - 1

remoteWinner(res, lg, outlier_index) ==
  IF lg.type = "OUTLIER"
  THEN outlierWinner([i \in 1..Len(res) |-> res[i].index], outlier_index)
  ELSE countsWinner([i \in 1..Len(res) |-> res[i].empty], lg)

\* ===================================================== the decision step
\* Inputs of the decision step: every result list of up to MaxImages images
\* (entry k carries index k; total >= empty, both at most MaxCount), and the
\* lists the specification gives as examples.
Metrics == {[empty |-> e, total |-> t] : e \in 0..MaxCount, t \in 0..MaxCount}

ResultLists ==
  UNION {
    {[k \in 1..n |-> [index |-> k - 1, empty |-> f[k].empty, total |-> f[k].total]] :
       f \in [1..n -> {m \in Metrics : m.empty <= m.total}]} : n \in 0..MaxImages}

Example0312 ==
  << [index |-> 0, empty |-> 0, total |-> 4], [index |-> 1, empty |-> 3, total |-> 4],
     [index |-> 2, empty |-> 1, total |-> 4], [index |-> 3, empty |-> 2, total |-> 4] >>

Example000 ==
  << [index |-> 0, empty |-> 0, total |-> 1], [index |-> 1, empty |-> 0, total |-> 0],
     [index |-> 2, empty |-> 0, total |-> 2] >>

Logics ==
  {[type |-> t, target |-> 0] : t \in {"MAX", "OUTLIER", "UNKNOWN"}}
    \cup {[type |-> "EXACT", target |-> n] : n \in (0..MaxTarget) \cup {5}}

DecideIdle ==
  /\ results = <<>>
  /\ logic = [type |-> "UNKNOWN", target |-> 0]
  /\ outlierIndex = -1
  /\ decision = NoDecision
  /\ engine = "none"
  /\ marked = -1
  /\ scheduled = -1

NoTask == [none |-> TRUE]

\* What a call of a host method through its wrapper did: how often the
\* original ran, whether the caller got the original's result, and how many
\* refreshes were scheduled.
NoCall == [method |-> "none", originals |-> 0, returnsResult |-> FALSE, refreshes |-> 0]

RemoteIdle ==
  /\ rtc = [defined |-> FALSE]
  /\ rstarted = FALSE
  /\ lastId = <<>>
  /\ rtimers = 0
  /\ rpasses = <<>>
  /\ autoSolves = <<>>
  /\ moves = 0

ParseIdle ==
  /\ instruction = [undefined |-> TRUE]
  /\ parser = "none"
  /\ parseResult = [threw |-> FALSE]

VisionIdle ==
  /\ imageIn = [ready |-> FALSE, throwsAt |-> "none", contours |-> <<>>]
  /\ vscript = "none"
  /\ rectangles = <<>>
  /\ boxes = <<>>
  /\ analyzed = [threw |-> FALSE, empty |-> 0, total |-> 0]
  /\ matrices = [acquired |-> [tracked |-> 0, contour |-> 0, approxPoly |-> 0],
                 released |-> [tracked |-> 0, contour |-> 0, approxPoly |-> 0]]
  /\ suppressed = [done |-> FALSE, boxes |-> <<>>]

PureIdle == ParseIdle /\ VisionIdle

LocalIdle ==
  /\ script = "refactored"
  /\ tc = [defined |-> FALSE, task |-> NoTask, wrapped |-> 0, last |-> NoCall]
  /\ cvReady = FALSE
  /\ started = FALSE
  /\ timers = 0
  /\ passes = <<>>
  /\ ui = [shown |-> FALSE, status |-> "READY", grid |-> 0]

InitDecide ==
  /\ results \in ResultLists \cup {Example0312, Example000}
  /\ logic \in Logics
  /\ outlierIndex \in IF logic.type = "OUTLIER" THEN -1..Len(results) ELSE {-1}
  /\ decision = NoDecision
  /\ engine = "none"
  /\ marked = -1
  /\ scheduled = -1
  /\ LocalIdle
  /\ RemoteIdle
  /\ PureIdle

\* if (prediction.index >= 0) { results.find(r => r.index === prediction.index)
\* ... markPredicted(matchingResult.card) }: the card marked, or -1.
markedCard(res, prediction) ==
  LET hits == {i \in 1..Len(res) : res[i].index = prediction.index}
  IN IF prediction.index >= 0 /\ hits # {} THEN FindFirst(hits) - 1 ELSE -1

\* #render: if (CONFIG.AUTO_SOLVE && winnerIdx !== -1) setTimeout(...)
autoSolveIndex(winnerIdx) ==
  IF AUTO_SOLVE /\ winnerIdx # -1 THEN winnerIdx ELSE -1

DecideRefactored ==
  /\ engine = "none"
  /\ engine' = "refactored"
  /\ decision' = PredictionEngine_predict(results, logic)
  /\ marked' = markedCard(results, decision')
  /\ UNCHANGED <<results, logic, outlierIndex, scheduled, localVars, remoteVars, pureVars>>

DecideMinified ==
  /\ engine = "none"
  /\ engine' = "minified"
  /\ decision' = predict(results, logic)
  /\ marked' = markedCard(results, decision')
  /\ UNCHANGED <<results, logic, outlierIndex, scheduled, localVars, remoteVars, pureVars>>

DecideRemote ==
  /\ engine = "none"
  /\ engine' = "remote"
  /\ decision' = [index |-> remoteWinner(results, logic, outlierIndex)]
  /\ scheduled' = autoSolveIndex(decision'.index)
  /\ UNCHANGED <<results, logic, outlierIndex, marked, localVars, remoteVars, pureVars>>

NextDecide == DecideRefactored \/ DecideMinified \/ DecideRemote

SpecDecide == InitDecide /\ [][NextDecide]_vars

\* ------------------------------------------------- what the claims speak of
Positions == 1..Len(results)

Local == engine \in {"refactored", "minified"}

Decided == engine # "none"

MaxMetric == CHOOSE m \in {results[i].empty : i \in Positions} :
               \A i \in Positions : results[i].empty <= m

HasExact == \E i \in Positions : results[i].empty = logic.target

\* C1: under a MAXIMUM rule, when some image has metric > 0, the local
\* predictors select an image of largest metric, among those one of fewest
\* totalShapes, among those the lowest index, and approximate is false.
C1_MaximumSelectsLargest ==
  (Local /\ logic.type = "MAX" /\ \E i \in Positions : results[i].empty > 0) =>
    /\ decision.isApproximate = FALSE
    /\ \E w \in Positions :
         /\ decision.index = results[w].index
         /\ results[w].empty = MaxMetric
         /\ \A i \in Positions :
              results[i].empty = MaxMetric =>
                \/ results[w].total < results[i].total
                \/ results[w].total = results[i].total /\ w <= i

C1_Witness ==
  /\ engine = "refactored" /\ logic.type = "MAX" /\ results = Example0312
  /\ decision = [index |-> 1, isApproximate |-> FALSE]

\* C2: under a MAXIMUM rule with no image of metric > 0 (all-zero or empty
\* list) every script's decision is no-decision.
C2_MaximumAllZeroNoDecision ==
  (Decided /\ logic.type = "MAX" /\ \A i \in Positions : results[i].empty = 0) =>
    (decision.index = -1 /\ marked = -1 /\ scheduled = -1)

\* C3: under an EXACT_COUNT rule, when some image has metric = target, every
\* script selects the lowest-index image whose metric equals target, and the
\* local predictors report approximate = false.
C3_ExactSelectsFirstMatch ==
  (Decided /\ logic.type = "EXACT" /\ HasExact) =>
    /\ Local => decision.isApproximate = FALSE
    /\ \E w \in Positions :
         /\ decision.index = results[w].index
         /\ results[w].empty = logic.target
         /\ \A i \in Positions : results[i].empty = logic.target => w <= i

C3_Witness ==
  /\ engine = "minified" /\ results = Example0312
  /\ logic = [type |-> "EXACT", target |-> 2]
  /\ decision = [index |-> 3, isApproximate |-> FALSE]

\* C4: under an EXACT_COUNT rule with a non-empty list and no image of
\* metric = target, every script selects the image minimizing
\* abs(metric - target), the lowest index among equals, and the local
\* predictors report approximate = true.
C4_ExactFallbackSelectsClosest ==
  (Decided /\ logic.type = "EXACT" /\ Positions # {} /\ ~HasExact) =>
    /\ Local => decision.isApproximate = TRUE
    /\ \E w \in Positions :
         /\ decision.index = results[w].index
         /\ \A i \in Positions :
              LET dw == Abs(results[w].empty - logic.target)
                  di == Abs(results[i].empty - logic.target)
              IN dw < di \/ (dw = di /\ w <= i)

C4_Witness ==
  /\ engine = "refactored" /\ results = Example0312
  /\ logic = [type |-> "EXACT", target |-> 5]
  /\ decision = [index |-> 1, isApproximate |-> TRUE]

\* C5 (as claimed): under an OUTLIER or UNKNOWN rule every script's decision
\* is no-decision, whatever the results are: no card is marked and no
\* auto-solve is scheduled.
C5_OutlierUnknownNoDecision ==
  (Decided /\ logic.type \in {"OUTLIER", "UNKNOWN"}) =>
    (decision.index = -1 /\ marked = -1 /\ scheduled = -1)

\* C5 (amended): under an UNKNOWN rule every script's decision is
\* no-decision, and under an OUTLIER rule the local predictors' is: no index
\* is selected, no card is marked, no auto-solve is scheduled. Under an
\* OUTLIER rule the remote script selects, and schedules for auto-solve, the
\* first result whose index equals the service's outlier_index (no-decision
\* only when no result carries it).
C5_UnknownNoDecisionOutlierRemoteOnly ==
  /\ (Decided /\ (logic.type = "UNKNOWN" \/ (Local /\ logic.type = "OUTLIER"))) =>
       (decision.index = -1 /\ marked = -1 /\ scheduled = -1)
  /\ (engine = "remote" /\ logic.type = "OUTLIER") =>
       /\ scheduled = decision.index
       /\ IF \E i \in Positions : results[i].index = outlierIndex
          THEN decision.index = outlierIndex
          ELSE decision.index = -1

C5_Witness ==
  /\ engine = "remote" /\ logic.type = "OUTLIER" /\ Len(results) > 1
  /\ outlierIndex > 0 /\ decision.index = outlierIndex /\ scheduled = outlierIndex

\* C6: for every rule and result list the local predictors' selected index
\* is -1 or the index of an element of the list, and -1 for the empty list.
C6_IndexUnsetOrInList ==
  Local =>
    /\ decision.index = -1 \/ \E i \in Positions : results[i].index = decision.index
    /\ results = <<>> => decision.index = -1

C6_Witness ==
  /\ Local /\ results = <<>> /\ logic.type = "EXACT"
  /\ decision.index = -1

\* C7: a local predictor's decision has approximate = true only under an
\* EXACT_COUNT rule with no image of metric = target.
C7_ApproximateOnlyExactWithoutMatch ==
  (Local /\ decision.isApproximate) => (logic.type = "EXACT" /\ ~HasExact)

C7_Witness ==
  /\ Local /\ logic.type = "EXACT" /\ HasExact /\ Len(results) > 1
  /\ \E i \in Positions : results[i].empty # logic.target
  /\ decision.isApproximate = FALSE

\* ============================================ the local-vision scripts
\* Images as the script meets them: a base64 item either fails to decode
\* (image.onerror) or decodes (image.onload); on a decoded image the OpenCV
\* pipeline either throws somewhere or yields {empty, total}.
ImageCycle ==
  << [decodes |-> TRUE, throws |-> FALSE, empty |-> 1, total |-> 2],
     [decodes |-> FALSE, throws |-> FALSE, empty |-> 0, total |-> 0],
     [decodes |-> TRUE, throws |-> FALSE, empty |-> 0, total |-> 1],
     [decodes |-> TRUE, throws |-> TRUE, empty |-> 0, total |-> 0] >>

ItemsOf(n, v) == [i \in 1..n |-> ImageCycle[((i + v - 1) % Len(ImageCycle)) + 1]]

\* <span style="display:none">exactly 9</span><span>Select the highest number
\* of empty boxes</span>
MarkupHighest ==
  [length |-> 96, bodyStyle |-> <<>>,
   nodes |-> << [style |-> <<"d", "i", "s", "p", "l", "a", "y", ":", "n", "o",
                            "n", "e">>,
                  text |-> <<"e", "x", "a", "c", "t", "l", "y", " ", "9">>],
                [style |-> <<>>,
                  text |-> <<"S", "e", "l", "e", "c", "t", " ", "t", "h", "e",
                           " ", "h", "i", "g", "h", "e", "s", "t", " ", "n",
                           "u", "m", "b", "e", "r", " ", "o", "f", " ", "e",
                           "m", "p", "t", "y", " ", "b", "o", "x", "e", "s">>] >>]

\* <span style="color:red">select exactly 1 empty box</span>
MarkupExactly ==
  [length |-> 57, bodyStyle |-> <<>>,
   nodes |-> << [style |-> <<"c", "o", "l", "o", "r", ":", "r", "e", "d">>,
                  text |-> <<"s", "e", "l", "e", "c", "t", " ", "e", "x", "a",
                           "c", "t", "l", "y", " ", "1", " ", "e", "m", "p",
                           "t", "y", " ", "b", "o", "x">>] >>]

\* <span>click the odd one out</span>
MarkupOther ==
  [length |-> 34, bodyStyle |-> <<>>,
   nodes |-> << [style |-> <<>>,
                  text |-> <<"c", "l", "i", "c", "k", " ", "t", "h", "e", " ",
                           "o", "d", "d", " ", "o", "n", "e", " ", "o", "u",
                           "t">>] >>]

\* <body style="visibility:hidden"><span>select the highest number</span></body>
MarkupHiddenBody ==
  [length |-> 77, bodyStyle |-> <<"v", "i", "s", "i", "b", "i", "l", "i", "t",
                              "y", ":", "h", "i", "d", "d", "e", "n">>,
   nodes |-> << [style |-> <<>>,
                  text |-> <<"s", "e", "l", "e", "c", "t", " ", "t", "h", "e",
                           " ", "h", "i", "g", "h", "e", "s", "t", " ", "n",
                           "u", "m", "b", "e", "r">>] >>]

LocalMarkups == <<MarkupHighest, MarkupExactly, MarkupOther, MarkupHiddenBody>>

\* The challenges the host may present: each instruction with 0..LocalMaxImages
\* images, the images of instruction j starting at place j of the cycle.
LocalTasks ==
  {[str |-> LocalMarkups[j], items |-> ItemsOf(n, j - 1)] :
     j \in 1..Len(LocalMarkups), n \in 0..LocalMaxImages}

Zero == [empty |-> 0, total |-> 0]

\* ComputerVision.analyze / CV.analyze: {0, 0} when OpenCV is not ready or
\* any step throws (try / catch), the counts otherwise.
analyze(image, ready) ==
  IF ~ready THEN Zero
  ELSE IF image.throws THEN Zero
  ELSE [empty |-> image.empty, total |-> image.total]

Pending == [pending |-> TRUE]

\* Promise.all: the value of the k-th promise goes to slot k of the values
\* array whatever the order of resolution; the joined promise is fulfilled
\* when no slot is left pending.
PromiseAll_settleInArrivalOrder(values, k, v) ==
  LET free == {i \in 1..Len(values) : values[i] = Pending}
  IN [values EXCEPT ![SetMin(free)] = v]

PromiseAll_settle(values, k, v) == [values EXCEPT ![k] = v]

PromiseAll_fulfilledBySome(values) ==
  \E i \in 1..Len(values) : values[i] # Pending

PromiseAll_fulfilled(values) == \A i \in 1..Len(values) : values[i] # Pending

\* The array the awaiting refresh() receives.
PromiseAll_value(values) ==
  LET F[n \in 0..Len(values)] ==
        IF n = 0 THEN <<>>
        ELSE IF values[n] = Pending THEN F[n - 1] ELSE Append(F[n - 1], values[n])
  IN F[Len(values)]

\* The logic object as the rest of refresh() uses it, its target a plain
\* integer.
logicOf(parsed) ==
  IF parsed.threw THEN parsed ELSE [parsed EXCEPT !.target = NumberOf(@)]

parseOf(sc, html) ==
  logicOf(IF sc = "refactored" THEN LogicParser_parse(html) ELSE parse(html))

predictOf(sc, res, lg) ==
  IF sc = "refactored" THEN PredictionEngine_predict(res, lg) ELSE predict(res, lg)

StatusOf(lg, suffix) ==
  [prompt |-> lg.text, logic |-> lg.type,
   target |-> IF lg.type = "EXACT" \/ suffix # "" THEN lg.target ELSE -1,
   suffix |-> suffix]

\* parseOf on the instructions of the catalogue, evaluated once.
LocalParsed ==
  [sc \in {"refactored", "minified"}, html \in ElementsOf(LocalMarkups) |->
     parseOf(sc, html)]

\* refresh() up to its await. No task: hide the panel. Otherwise show it,
\* parse (a throw ends the call there), write the status line, clear the grid
\* and create one card and one promise per item.
refreshBegin(task) ==
  IF task = NoTask
  THEN /\ ui' = [ui EXCEPT !.shown = FALSE]
       /\ passes' = passes
  ELSE LET lg == LocalParsed[script, task.str]
       IN IF lg.threw
          THEN /\ ui' = [ui EXCEPT !.shown = TRUE]
               /\ passes' = passes
          ELSE /\ ui' = [shown |-> TRUE, status |-> StatusOf(lg, ""),
                         grid |-> Len(passes) + 1]
               /\ passes' = Append(passes,
                    [task |-> task, logic |-> lg,
                     loads |-> [i \in 1..Len(task.items) |-> 1],
                     values |-> [i \in 1..Len(task.items) |-> Pending],
                     stats |-> [i \in 1..Len(task.items) |-> "..."],
                     pc |-> "await", predictCalls |-> 0, decidedOn |-> <<>>,
                     prediction |-> NoDecision, predicted |-> -1])

Budget == Len(passes) + timers < MaxPasses

InitLocal ==
  /\ script \in {"refactored", "minified"}
  /\ tc = [defined |-> FALSE, task |-> NoTask, wrapped |-> 0, last |-> NoCall]
  /\ cvReady = FALSE
  /\ started = FALSE
  /\ timers = 0
  /\ passes = <<>>
  /\ ui = [shown |-> FALSE, status |-> "READY", grid |-> 0]
  /\ DecideIdle
  /\ RemoteIdle
  /\ PureIdle

\* The host page defines TCaptcha (possibly with a challenge already set).
HostDefinesTCaptcha ==
  /\ ~tc.defined
  /\ \E t \in LocalTasks \cup {NoTask} :
       tc' = [defined |-> TRUE, task |-> t, wrapped |-> 0, last |-> NoCall]
  /\ UNCHANGED <<script, cvReady, started, timers, passes, ui, decideVars, remoteVars, pureVars>>

\* opencv.js finishes initialising.
OpenCvLoads ==
  /\ ~cvReady
  /\ cvReady' = TRUE
  /\ UNCHANGED <<script, tc, started, timers, passes, ui, decideVars, remoteVars, pureVars>>

\* start(): TCaptcha or OpenCV missing, so poll again after retryDelay.
StartRetry ==
  /\ ~started
  /\ ~(tc.defined /\ cvReady)
  /\ UNCHANGED vars

\* The wrapper hookTCaptchaAPI puts around setTaskId, setChallenge,
\* setTaskItem and toggleSlider: originalMethod.apply once, one setTimeout
\* for refresh, the result returned; one more of each for every further
\* layer around it.
hooked(layers) ==
  [method |-> "hooked", originals |-> 1, returnsResult |-> TRUE, refreshes |-> layers]

\* The wrapper around clearChallenge: originalClear?.apply, then
\* UserInterface.hide(); nothing is returned, no refresh is scheduled.
cleared ==
  [method |-> "clearChallenge", originals |-> 1, returnsResult |-> FALSE, refreshes |-> 0]

\* start(): both ready; build the panel, hook the host methods and, when a
\* challenge is already there (tasks?.length), call refresh() at once.
StartReady ==
  /\ ~started
  /\ tc.defined /\ cvReady
  /\ started' = TRUE
  /\ tc' = [tc EXCEPT !.wrapped = @ + 1]
  /\ IF tc.task # NoTask
     THEN refreshBegin(tc.task)
     ELSE UNCHANGED <<passes, ui>>
  /\ UNCHANGED <<script, cvReady, timers, decideVars, remoteVars, pureVars>>

\* The host calls a hooked method (setTaskId, setChallenge, setTaskItem,
\* toggleSlider): the original runs, then a refresh is scheduled.
HostCallsHooked ==
  /\ started
  /\ Budget
  /\ \E t \in LocalTasks \cup {NoTask} :
       tc' = [tc EXCEPT !.task = t, !.last = hooked(tc.wrapped)]
  /\ timers' = timers + hooked(tc.wrapped).refreshes
  /\ UNCHANGED <<script, cvReady, started, passes, ui, decideVars, remoteVars, pureVars>>

\* The host calls clearChallenge: the original runs, the panel is hidden.
HostClearsChallenge ==
  /\ started
  /\ tc.task # NoTask
  /\ tc' = [tc EXCEPT !.task = NoTask, !.last = cleared]
  /\ ui' = [ui EXCEPT !.shown = FALSE]
  /\ UNCHANGED <<script, cvReady, started, timers, passes, decideVars, remoteVars, pureVars>>

\* A scheduled refresh() runs up to its await.
RefreshTimerFires ==
  /\ timers > 0
  /\ timers' = timers - 1
  /\ refreshBegin(tc.task)
  /\ UNCHANGED <<script, tc, cvReady, started, decideVars, remoteVars, pureVars>>

\* image.onload of card k of pass p: analyse, show the counts, resolve.
ImageLoads(p, k) ==
  /\ passes[p].values[k] = Pending
  /\ passes[p].task.items[k].decodes
  /\ LET analysis == analyze(passes[p].task.items[k], cvReady)
     IN passes' = [passes EXCEPT
          ![p].stats[k] = "E:T",
          ![p].values = PromiseAll_settle(@, k,
             [index |-> k - 1, empty |-> analysis.empty, total |-> analysis.total])]
  /\ UNCHANGED <<script, tc, cvReady, started, timers, ui, decideVars, remoteVars, pureVars>>

\* image.onerror of card k of pass p: resolve with {empty: 0, total: 0}.
ImageFails(p, k) ==
  /\ passes[p].values[k] = Pending
  /\ ~passes[p].task.items[k].decodes
  /\ passes' = [passes EXCEPT
       ![p].stats[k] = "E:? T:?",
       ![p].values = PromiseAll_settle(@, k, [index |-> k - 1, empty |-> 0, total |-> 0])]
  /\ UNCHANGED <<script, tc, cvReady, started, timers, ui, decideVars, remoteVars, pureVars>>

\* refresh() resumes after its await: predict, mark the predicted card and,
\* for an approximate prediction, rewrite the status line.
RefreshResumes(p) ==
  /\ passes[p].pc = "await"
  /\ PromiseAll_fulfilled(passes[p].values)
  /\ LET res == PromiseAll_value(passes[p].values)
         prediction == predictOf(script, res, passes[p].logic)
         card == markedCard(res, prediction)
     IN /\ passes' = [passes EXCEPT
             ![p].pc = "done",
             ![p].predictCalls = @ + 1,
             ![p].decidedOn = res,
             ![p].prediction = prediction,
             ![p].predicted = card]
        /\ ui' = IF card # -1 /\ prediction.isApproximate
                 THEN [ui EXCEPT !.status = StatusOf(passes[p].logic, " (APPROX)")]
                 ELSE ui
  /\ UNCHANGED <<script, tc, cvReady, started, timers, decideVars, remoteVars, pureVars>>

NextLocal ==
  \/ HostDefinesTCaptcha
  \/ OpenCvLoads
  \/ StartRetry
  \/ StartReady
  \/ HostCallsHooked
  \/ HostClearsChallenge
  \/ RefreshTimerFires
  \/ \E p \in 1..Len(passes) : \E k \in 1..Len(passes[p].values) : ImageLoads(p, k)
  \/ \E p \in 1..Len(passes) : \E k \in 1..Len(passes[p].values) : ImageFails(p, k)
  \/ \E p \in 1..Len(passes) : RefreshResumes(p)

SpecLocal == InitLocal /\ [][NextLocal]_vars

\* The result image k of a pass must carry: its own index and its own counts,
\* {0, 0} when it does not decode or its analysis throws.
ExpectedResult(task, k) ==
  LET im == task.items[k]
  IN IF im.decodes /\ ~im.throws
     THEN [index |-> k - 1, empty |-> im.empty, total |-> im.total]
     ELSE [index |-> k - 1, empty |-> 0, total |-> 0]

\* C8: whatever the order in which the load and error callbacks ran, the
\* result list handed to the decision step has one entry per input image and
\* entry k carries index k and image k's own counts.
C8_ResultsInInputOrder ==
  \A p \in 1..Len(passes) :
    passes[p].pc = "done" =>
      /\ Len(passes[p].decidedOn) = Len(passes[p].task.items)
      /\ \A k \in 1..Len(passes[p].decidedOn) :
           passes[p].decidedOn[k] = ExpectedResult(passes[p].task, k)

C8_Witness ==
  \E p \in 1..Len(passes) :
    /\ passes[p].pc = "done"
    /\ Len(passes[p].task.items) >= 2
    /\ passes[p].decidedOn[1].empty # passes[p].decidedOn[2].empty

\* C9: within a pass the decision step runs at most once, never while an
\* image of the pass is still pending, and exactly once when the pass is done;
\* the list it ran on held a result for every image.
C9_DecisionOnceAfterJoin ==
  \A p \in 1..Len(passes) :
    /\ passes[p].predictCalls <= 1
    /\ (passes[p].pc = "done") <=> (passes[p].predictCalls = 1)
    /\ passes[p].predictCalls = 1 =>
         Len(passes[p].decidedOn) = Len(passes[p].task.items)

C9_Witness ==
  \E p \in 1..Len(passes) :
    /\ passes[p].predictCalls = 1
    /\ Len(passes[p].task.items) >= 2
    /\ Len(passes) >= 2

\* C28: startup polls until the host widget and the vision backend are
\* ready and then initializes once: each host method is wrapped at most
\* once, and every call of a wrapped method runs the original exactly once,
\* hands its result back and schedules exactly one refresh.
C28_HookedOnceAndTransparent ==
  /\ ~started => tc.wrapped = 0
  /\ started => tc.wrapped = 1
  /\ tc.last # NoCall =>
       /\ tc.last.originals = 1
       /\ tc.last.returnsResult
       /\ tc.last.refreshes = 1

\* C26: when refresh passes overlap, once all of them have finished the
\* status line (prompt, logic) and the grid belong to the most recently
\* started pass; an older pass finishing late does not overwrite them.
C26_LastPassOwnsDisplay ==
  (/\ timers = 0
   /\ passes # <<>>
   /\ \A p \in 1..Len(passes) : passes[p].pc = "done") =>
    LET last == passes[Len(passes)]
    IN /\ ui.grid = Len(passes)
       /\ ui.status =
            StatusOf(last.logic,
                     IF last.predicted # -1 /\ last.prediction.isApproximate
                     THEN " (APPROX)" ELSE "")

\* ========================================== the remote-inference script
SHOW_PANEL == FALSE

\* ------------------------------------------------- InstructionParser.parse
\* (el.getAttribute('style') || '').replace(/\s/g, '') is searched for the
\* three hidden declarations as substrings.
remote_isHidden(styleAttr) ==
  LET style == removeSpaces(styleAttr)
  IN \/ Includes(style, <<"o", "p", "a", "c", "i", "t", "y", ":", "0">>)
     \/ Includes(style, <<"v", "i", "s", "i", "b", "i", "l", "i", "t", "y", ":",
                      "h", "i", "d", "d", "e", "n">>)
     \/ /\ Includes(style, <<"d", "i", "s", "p", "l", "a", "y", ":", "n", "o", "n",
                      "e">>)
        /\ ~Includes(style, <<"n", "n", "o", "n", "e">>)

remote_bodyText(html) ==
  Concat([i \in 1..Len(html.nodes) |->
            IF remote_isHidden(html.nodes[i].style) THEN <<>> ELSE html.nodes[i].text])

keywordOf(text) ==
  IF Includes(text, <<"4", " ", "s", "p", "i", "k", "e", "s">>) THEN "shuriken"
  ELSE IF Includes(text, <<"5", " ", "s", "p", "i", "k", "e", "s">>) THEN "pentagram"
  ELSE IF Includes(text, <<"6", " ", "s", "p", "i", "k", "e", "s">>) THEN "hexragram"
  ELSE IF Includes(text, <<"7", " ", "s", "p", "i", "k", "e", "s">>) THEN "star7"
  ELSE IF Includes(text, <<"8", " ", "s", "p", "i", "k", "e", "s">>) THEN "star8"
  ELSE IF Includes(text, <<"d", "o", "t", "t", "e", "d">>) THEN "dotted dice"
  ELSE IF Includes(text, <<"e", "m", "p", "t", "y">>) THEN "empty dice"
  ELSE IF \/ Includes(text, <<"d", "i", "c", "e">>)
          \/ Includes(text, <<"p", "i", "e">>)
          \/ Includes(text, <<"p", "i", "p">>) THEN "dice"
  ELSE "empty"

\* html.match(/>\s*(\d+)\s*</) on the raw markup: the elements, hidden or
\* not, whose whole text is one number, white space around it allowed.
RawNumberNodes(html) ==
  {i \in 1..Len(html.nodes) :
     LET t == trim(html.nodes[i].text)
     IN t # <<>> /\ \A k \in 1..Len(t) : t[k] \in Digits}

typeOf(text) ==
  IF \/ Includes(text, <<"h", "i", "g", "h", "e", "s", "t">>)
     \/ Includes(text, <<"m", "o", "s", "t">>)
     \/ Includes(text, <<"m", "a", "x", "i", "m", "u", "m">>) THEN "MAX"
  ELSE IF Includes(text, exactly) THEN "EXACT"
  ELSE IF \/ Includes(text, <<"p", "a", "i", "r">>)
          \/ Includes(text, <<"n", "o", "t", " ", "l", "i", "k", "e", " ", "t",
                            "h", "e", " ", "o", "t", "h", "e", "r", "s">>)
          \/ Includes(text, <<"o", "d", "d", " ", "o", "n", "e", " ", "o", "u",
                            "t">>)
  THEN "OUTLIER"
  ELSE "UNKNOWN"

InstructionParser_parse(html) ==
  IF remote_isHidden(html.bodyStyle) THEN [threw |-> TRUE]
  ELSE LET text == normalize(remote_bodyText(html))
           raw == RawNumberNodes(html)
           type == typeOf(text)
           target == IF type # "EXACT" THEN JSNumber(0)
                     ELSE IF ExactlyMatches(text) # {}
                     THEN parseInt(ExactlyDigits(text))
                     ELSE IF raw # {}
                     THEN parseInt(trim(html.nodes[SetMin(raw)].text))
                     ELSE JSNumber(0)
       IN [threw |-> FALSE, type |-> type, target |-> target,
           keyword |-> keywordOf(text), cleanText |-> text]

\* <span>select the dice with exactly 2 pips</span>
MarkupDice ==
  [length |-> 48, bodyStyle |-> <<>>,
   nodes |-> << [style |-> <<>>,
                  text |-> <<"s", "e", "l", "e", "c", "t", " ", "t", "h", "e",
                           " ", "d", "i", "c", "e", " ", "w", "i", "t", "h",
                           " ", "e", "x", "a", "c", "t", "l", "y", " ", "2",
                           " ", "p", "i", "p", "s">>] >>]

RemoteMarkups == <<MarkupHighest, MarkupExactly, MarkupOther, MarkupDice>>

\* What the service counts on the images of a challenge (detections of the
\* keyword class, or pips).
CountCycle == <<0, 2, 1, 0>>

CountsOf(n, v) == [i \in 1..n |-> CountCycle[((i + v - 1) % Len(CountCycle)) + 1]]

\* Instruction j with n images.
RemoteTask(j, n) == [str |-> RemoteMarkups[j], items |-> CountsOf(n, j - 1)]

\* The challenges the host may present: each instruction without images and
\* with RemoteMaxImages images.
RemoteTasks ==
  {RemoteTask(j, n) : j \in 1..Len(RemoteMarkups), n \in {0, RemoteMaxImages}}

\* InstructionParser.parse on the instructions of the catalogue, evaluated
\* once.
RemoteParsed ==
  [html \in ElementsOf(RemoteMarkups) |-> logicOf(InstructionParser_parse(html))]

endpointOf(lg) ==
  IF lg.type = "OUTLIER" THEN "/api/outlier"
  ELSE IF lg.keyword = "dice" THEN "/api/die/batch"
  ELSE "/api/batch"

\* How a request ends: GradioClient.analyze resolves with the parsed body
\* (complete, or lacking its results field) or rejects (HTTP status, JSON
\* parse error, network error, timeout).
Outcomes == {"ok", "noResults", "HTTP", "JSON Parse Error", "Network Error", "Timeout"}

\* `${tc.taskId}-${task.items?.length}-${task.str.length}`
idOf(taskId, task) == <<taskId, Len(task.items), task.str.length>>

InitRemote ==
  /\ rtc = [defined |-> FALSE]
  /\ rstarted = FALSE
  /\ lastId = <<>>
  /\ rtimers = 0
  /\ rpasses = <<>>
  /\ autoSolves = <<>>
  /\ moves = 0
  /\ DecideIdle
  /\ LocalIdle
  /\ PureIdle

\* What getCurrentTask and taskId may be after a host call: no task, step
\* 1 or 2 of a challenge (instructions 1 and 3 at taskId 0, 2 and 4 at
\* taskId 1), or step 1 of another challenge with the first instruction
\* again and as many images, but other images.
HostStates ==
  {[taskId |-> (j - 1) % 2, task |-> RemoteTask(j, n)] :
     j \in 1..Len(RemoteMarkups), n \in {0, RemoteMaxImages}}
  \cup {[taskId |-> 0, task |-> NoTask],
        [taskId |-> 0,
         task |-> [str |-> RemoteMarkups[1], items |-> CountsOf(RemoteMaxImages, 1)]]}

\* The host page defines TCaptcha.
RemoteHostDefinesTCaptcha ==
  /\ ~rtc.defined
  /\ \E h \in HostStates, sl \in BOOLEAN :
       rtc' = [defined |-> TRUE, taskId |-> h.taskId, task |-> h.task,
               sliderNode |-> sl, slider |-> 0, nextClicks |-> 0,
               applied |-> <<>>]
  /\ UNCHANGED <<rstarted, lastId, rtimers, rpasses, autoSolves, moves,
                 decideVars, localVars, pureVars>>

\* start(): TCaptcha.setTaskId missing, poll again after HOOK_RETRY.
RemoteStartRetry ==
  /\ ~rstarted
  /\ ~rtc.defined
  /\ UNCHANGED vars

\* start(): panel.init() (a no-op with SHOW_PANEL false) and #hook().
RemoteStartReady ==
  /\ ~rstarted
  /\ rtc.defined
  /\ rstarted' = TRUE
  /\ UNCHANGED <<rtc, lastId, rtimers, rpasses, autoSolves, moves,
                 decideVars, localVars, pureVars>>

\* The host (or the user) calls a hooked method (setTaskId, setChallenge,
\* setTaskItem, onNextClick): the original runs, then a refresh is scheduled.
RemoteHostCallsHooked ==
  /\ rstarted
  /\ moves < MaxMoves
  /\ moves' = moves + 1
  /\ \E h \in HostStates : rtc' = [rtc EXCEPT !.taskId = h.taskId, !.task = h.task]
  /\ rtimers' = rtimers + 1
  /\ UNCHANGED <<rstarted, lastId, rpasses, autoSolves, decideVars, localVars, pureVars>>

\* A scheduled #refresh() runs up to its await: no task resets lastId; a
\* task with the id of the last one analysed is skipped; otherwise the
\* instruction is parsed and the request is sent.
RemoteRefreshTimerFires ==
  /\ rtimers > 0
  /\ rtimers' = rtimers - 1
  /\ IF rtc.task = NoTask
     THEN /\ lastId' = <<>>
          /\ rpasses' = rpasses
     ELSE IF lastId = idOf(rtc.taskId, rtc.task)
     THEN UNCHANGED <<lastId, rpasses>>
     ELSE /\ lastId' = idOf(rtc.taskId, rtc.task)
          /\ LET lg == RemoteParsed[rtc.task.str]
             IN rpasses' =
                  IF lg.threw THEN rpasses
                  ELSE Append(rpasses,
                         [taskId |-> rtc.taskId, task |-> rtc.task, logic |-> lg,
                          endpoint |-> endpointOf(lg), pc |-> "request",
                          requests |-> 1, outcome |-> "pending",
                          counts |-> <<>>,
                          winnerIdx |-> -1])
  /\ UNCHANGED <<rtc, rstarted, autoSolves, moves, decideVars, localVars, pureVars>>

\* A pass whose rejected request is sent once more.
rejectedThenRetried(pass, o) == [pass EXCEPT !.requests = @ + 1, !.outcome = o]

\* The catch of #refresh: log "Analysis Failed" and return.
rejected(pass, o) == [pass EXCEPT !.pc = "failed", !.outcome = o]

\* The request of pass p is rejected: the catch logs "Analysis Failed".
RemoteRequestFails(p) ==
  /\ rpasses[p].pc = "request"
  /\ \E o \in Outcomes \ {"ok", "noResults"} :
       rpasses' = [rpasses EXCEPT ![p] = rejected(@, o)]
  /\ UNCHANGED <<rtc, rstarted, lastId, rtimers, autoSolves, moves,
                 decideVars, localVars, pureVars>>

\* The request of pass p is answered: the winner is computed, #render runs
\* and, with a winner, schedules the auto-solve. A body without results
\* makes the die branch throw (data.results.map) and the others see [].
RemoteResponseArrives(p) ==
  /\ rpasses[p].pc = "request"
  /\ \E o \in {"ok", "noResults"} :
     \E oi \in IF rpasses[p].logic.type = "OUTLIER"
               THEN -1..(Len(rpasses[p].task.items) - 1) ELSE {-1} :
       LET lg == rpasses[p].logic
           counts == IF o = "ok" THEN rpasses[p].task.items ELSE <<>>
           res == [i \in 1..Len(counts) |->
                     [index |-> i - 1, empty |-> counts[i], total |-> counts[i]]]
           w == remoteWinner(res, lg, oi)
       IN IF o = "noResults" /\ rpasses[p].endpoint = "/api/die/batch"
          THEN /\ rpasses' = [rpasses EXCEPT ![p].pc = "failed", ![p].outcome = o]
               /\ autoSolves' = autoSolves
          ELSE /\ rpasses' = [rpasses EXCEPT ![p].pc = "rendered",
                                             ![p].outcome = o,
                                             ![p].counts = counts,
                                             ![p].winnerIdx = w]
               /\ autoSolves' = IF autoSolveIndex(w) # -1
                                THEN Append(autoSolves, [pass |-> p, idx |-> w])
                                ELSE autoSolves
  /\ UNCHANGED <<rtc, rstarted, lastId, rtimers, moves, decideVars, localVars, pureVars>>

\* #applyAction(tc, idx): without a slider node nothing; otherwise the
\* slider is set to idx + 1 and its input and change events are dispatched.
applyAction(host, idx) ==
  IF ~host.sliderNode THEN [set |-> FALSE, input |-> FALSE, slider |-> host.slider]
  ELSE [set |-> TRUE, input |-> TRUE, slider |-> idx + 1]

\* The auto-solve timer of a pass fires: #applyAction(tc, winnerIdx), then
\* tc.onNextClick() when AUTO_SUBMIT is on. onNextClick is hooked: the
\* original runs (the host may move to another challenge) and a refresh is
\* scheduled. What was applied is noted with the host's task of the moment.
RemoteAutoSolveFires ==
  /\ autoSolves # <<>>
  /\ autoSolves' = Tail(autoSolves)
  /\ \E h \in IF moves < MaxMoves THEN HostStates
              ELSE {[taskId |-> rtc.taskId, task |-> rtc.task]} :
       LET timer == Head(autoSolves)
           action == applyAction(rtc, timer.idx)
       IN /\ rtc' = [rtc EXCEPT
               !.slider = action.slider,
               !.nextClicks = IF AUTO_SUBMIT THEN @ + 1 ELSE @,
               !.applied = Append(@,
                  [pass |-> timer.pass, idx |-> timer.idx,
                   current |-> /\ rpasses[timer.pass].taskId = rtc.taskId
                               /\ rpasses[timer.pass].task = rtc.task,
                   set |-> action.set, input |-> action.input,
                   submitted |-> AUTO_SUBMIT]),
               !.taskId = h.taskId, !.task = h.task]
          /\ moves' = IF h = [taskId |-> rtc.taskId, task |-> rtc.task]
                      THEN moves ELSE moves + 1
  /\ rtimers' = IF AUTO_SUBMIT THEN rtimers + 1 ELSE rtimers
  /\ UNCHANGED <<rstarted, lastId, rpasses, decideVars, localVars, pureVars>>

NextRemote ==
  \/ RemoteHostDefinesTCaptcha
  \/ RemoteStartRetry
  \/ RemoteStartReady
  \/ RemoteHostCallsHooked
  \/ RemoteRefreshTimerFires
  \/ \E p \in 1..Len(rpasses) : RemoteRequestFails(p)
  \/ \E p \in 1..Len(rpasses) : RemoteResponseArrives(p)
  \/ RemoteAutoSolveFires

SpecRemote == InitRemote /\ [][NextRemote]_vars

\* C10: when the vision call of a pass fails (the request is rejected or the
\* backend answers without results) the pass still yields one result per
\* image, zero for every image the backend did not analyse, and reaches the
\* decision step (#render).
C10_FailedPipelineStillDecides ==
  \A p \in 1..Len(rpasses) :
    rpasses[p].outcome \notin {"pending", "ok"} =>
      /\ rpasses[p].pc = "rendered"
      /\ rpasses[p].counts = [i \in 1..Len(rpasses[p].task.items) |-> 0]

\* What the program applied to the host so far.
Applied == IF rtc.defined THEN rtc.applied ELSE <<>>

\* C24: the auto-solve computed from the analysis of a task is applied only
\* while that task is still the host's current task: a winner index of an
\* older task is never written to the slider nor submitted.
C24_NoStaleAutoSolve ==
  \A a \in 1..Len(Applied) :
    ~Applied[a].current => ~Applied[a].set /\ ~Applied[a].submitted

\* C25: a submission by the program follows, in the same action, setting
\* the slider to the selected index + 1 and dispatching its input event;
\* without a slider node the program never submits.
C25_SubmitOnlyAfterSlider ==
  \A a \in 1..Len(Applied) :
    Applied[a].submitted =>
      /\ rtc.sliderNode
      /\ Applied[a].set
      /\ Applied[a].input

\* C27: a refresh skips the analysis only when the host's current task is
\* the task last analysed; tasks that differ in instruction text or in
\* images are never taken for the same task.
C27_SkipsOnlyTheSameTask ==
  [][(/\ rtimers' = rtimers - 1
      /\ rtc.task # NoTask
      /\ rpasses' = rpasses) =>
       /\ rpasses # <<>>
       /\ rpasses[Len(rpasses)].task = rtc.task]_vars

\* ====================================== the instruction parsers, run alone
\* Style attributes and element texts an instruction is put together from.
SampleStyles ==
  { <<>>,
    <<"d", "i", "s", "p", "l", "a", "y", ":", "n", "o", "n", "e">>,
    <<"v", "i", "s", "i", "b", "i", "l", "i", "t", "y", ":", " ", "h", "i",
      "d", "d", "e", "n">>,
    <<"o", "p", "a", "c", "i", "t", "y", ":", "0">>,
    <<"o", "p", "a", "c", "i", "t", "y", ":", "0", ".", "5">>,
    <<"d", "i", "s", "p", "l", "a", "y", ":", "n", "n", "o", "n", "e">>,
    <<"D", "i", "s", "p", "l", "a", "y", " ", ":", " ", "N", "o", "n", "e">> }

SampleTexts ==
  { <<"e", "x", "a", "c", "t", "l", "y", " ", "9">>,
    <<"S", "e", "l", "e", "c", "t", " ", "t", "h", "e", " ", "h", "i", "g",
      "h", "e", "s", "t", " ", "n", "u", "m", "b", "e", "r", " ">>,
    <<"p", "i", "c", "k", " ", "t", "h", "e", " ", "o", "n", "e", " ", "w",
      "i", "t", "h", " ", "t", "h", "e", " ", "m", "o", "s", "t">>,
    <<"e", "x", "a", "c", "t", "l", "y">>,
    <<"3">>,
    <<"o", "d", "d", " ", "o", "n", "e", " ", "o", "u", "t">>,
    <<"e", "x", "a", "c", "t", "l", "y", " ", "2", "1", "4", "7", "4", "8",
      "3", "6", "4", "8">> }

SampleNodes == {[style |-> st, text |-> tx] : st \in SampleStyles, tx \in SampleTexts}

NodeLists(most) == UNION {[1..n -> SampleNodes] : n \in 0..most}

\* task.str: markup of up to most elements, its body plain or hidden, or
\* no string at all.
Undefined == [undefined |-> TRUE]

Instructions(most) ==
  {[length |-> 0, bodyStyle |-> bs, nodes |-> ns] :
     bs \in {<<>>, <<"d", "i", "s", "p", "l", "a", "y", ":", "n", "o", "n", "e">>},
     ns \in NodeLists(most)}
  \cup {Undefined}

\* currentTask.str || ''
EmptyMarkup == [length |-> 0, bodyStyle |-> <<>>, nodes |-> <<>>]

orEmpty(s) == IF s = Undefined THEN EmptyMarkup ELSE s

InitParse ==
  /\ instruction \in Instructions(MaxNodes)
  /\ parser = "none"
  /\ parseResult = [threw |-> FALSE]
  /\ VisionIdle
  /\ DecideIdle
  /\ LocalIdle
  /\ RemoteIdle

\* refresh() of the refactored script: LogicParser.parse(currentTask.str || '')
ParseRefactored ==
  /\ parser = "none"
  /\ parser' = "refactored"
  /\ parseResult' = LogicParser_parse(orEmpty(instruction))
  /\ UNCHANGED <<instruction, visionVars, decideVars, localVars, remoteVars>>

\* refresh() of the minified script: parse(task.str || '')
ParseMinified ==
  /\ parser = "none"
  /\ parser' = "minified"
  /\ parseResult' = parse(orEmpty(instruction))
  /\ UNCHANGED <<instruction, visionVars, decideVars, localVars, remoteVars>>

\* #refresh() of the remote script: task.str.length for the id (a TypeError
\* without a string), then InstructionParser.parse(task.str).
ParseRemote ==
  /\ parser = "none"
  /\ parser' = "remote"
  /\ parseResult' = IF instruction = Undefined THEN [threw |-> TRUE]
                    ELSE InstructionParser_parse(instruction)
  /\ UNCHANGED <<instruction, visionVars, decideVars, localVars, remoteVars>>

NextParse == ParseRefactored \/ ParseMinified \/ ParseRemote

SpecParse == InitParse /\ [][NextParse]_vars

\* ------------------------------------------------- what the claims speak of
Parsed == parser # "none" /\ ~parseResult.threw

Given == orEmpty(instruction)

RuleText == IF parser = "remote" THEN parseResult.cleanText ELSE parseResult.text

ParseWith(ps, html) ==
  CASE ps = "refactored" -> LogicParser_parse(html)
    [] ps = "minified" -> parse(html)
    [] ps = "remote" -> InstructionParser_parse(html)

\* A style attribute with a declaration whose property and value are exactly
\* display / none, visibility / hidden or opacity / 0.
DeclaresHidden(styleAttr) ==
  LET rules == split(styleAttr, ";")
  IN \E i \in 1..Len(rules) :
       LET parts == split(rules[i], ":")
       IN /\ Len(parts) = 2
          /\ <<normalizePart(parts[1]), normalizePart(parts[2])>> \in
               { <<<<"d", "i", "s", "p", "l", "a", "y">>, <<"n", "o", "n", "e">>>>,
                 <<<<"v", "i", "s", "i", "b", "i", "l", "i", "t", "y">>,
                   <<"h", "i", "d", "d", "e", "n">>>>,
                 <<<<"o", "p", "a", "c", "i", "t", "y">>, <<"0">> >> }

WithoutHidden(html) ==
  LET Shown(n) == ~DeclaresHidden(n.style)
  IN [html EXCEPT !.nodes = SelectSeq(@, Shown)]

\* C11: every node whose style declares display:none, visibility:hidden or
\* opacity:0 is removed before the text is read, so the parsed rule (text,
\* kind and target) is the rule of the same markup without those nodes.
C11_HiddenNodesNeverCount ==
  Parsed => parseResult = ParseWith(parser, WithoutHidden(Given))

\* C12: hidden-style matching is exact: the text of every node whose style
\* does not declare one of the three hidden declarations (a near match such
\* as display:nnone or opacity:0.5 included) stays in the normalized text.
C12_NearMatchesAreKept ==
  Parsed =>
    \A i \in 1..Len(Given.nodes) :
      ~DeclaresHidden(Given.nodes[i].style) =>
        Includes(RuleText, normalize(Given.nodes[i].text))

KindByPriority(text) ==
  IF \/ Includes(text, <<"h", "i", "g", "h", "e", "s", "t">>)
     \/ Includes(text, <<"m", "o", "s", "t">>)
     \/ Includes(text, <<"m", "a", "x", "i", "m", "u", "m">>)
  THEN "MAX"
  ELSE IF Includes(text, <<"e", "x", "a", "c", "t", "l", "y">>) THEN "EXACT"
  ELSE IF \/ Includes(text, <<"p", "a", "i", "r">>)
          \/ Includes(text, <<"n", "o", "t", " ", "l", "i", "k", "e", " ", "t",
                            "h", "e", " ", "o", "t", "h", "e", "r", "s">>)
          \/ Includes(text, <<"o", "d", "d", " ", "o", "n", "e", " ", "o", "u",
                            "t">>)
  THEN "OUTLIER"
  ELSE "UNKNOWN"

\* C13: the kind of a parsed rule is the first match, in the order MAXIMUM
\* (highest, most, maximum), EXACT_COUNT (exactly), OUTLIER (pair, not like
\* the others, odd one out), UNKNOWN, over the normalized visible text.
C13_KindIsFirstMatch ==
  Parsed => parseResult.type = KindByPriority(RuleText)

\* C14: the target of an EXACT_COUNT rule is the first integer following
\* "exactly" in the normalized text and, when there is none, the first bare
\* integer between tags of the raw markup.
C14_TargetFollowsExactlyOrFallsBack ==
  Parsed /\ parseResult.type = "EXACT" =>
    IF ExactlyMatches(RuleText) # {}
    THEN parseResult.target = parseInt(ExactlyDigits(RuleText))
    ELSE RawNumberNodes(Given) # {} =>
           parseResult.target =
             parseInt(trim(Given.nodes[SetMin(RawNumberNodes(Given))].text))

\* C15: the parser never raises, whatever the markup (empty, body hidden) and
\* also for a task without instruction string; without any markup the rule
\* is UNKNOWN with empty text.
C15_ParserNeverRaises ==
  parser # "none" =>
    /\ ~parseResult.threw
    /\ Given.nodes = <<>> => parseResult.type = "UNKNOWN" /\ RuleText = <<>>

\* C18: the target of every parsed rule is a non-negative integer, also when
\* the number after "exactly" does not fit in 32 bits.
C18_TargetNonNegative ==
  Parsed => parseResult.target.hi >= 0

\* The markups that differ from html at most in the text of nodes whose
\* style declares them hidden.
HiddenVariants(html) ==
  {[html EXCEPT !.nodes = ns] :
     ns \in {v \in [1..Len(html.nodes) -> SampleNodes] :
               \A i \in 1..Len(html.nodes) :
                 /\ v[i].style = html.nodes[i].style
                 /\ ~DeclaresHidden(html.nodes[i].style) => v[i] = html.nodes[i]}}

\* C23: in the remote script two markups that differ only in the content of
\* hidden nodes give the same rule, kind and target, also when the visible
\* text has "exactly" without a number and the target comes from the raw
\* markup.
C23_HiddenContentNeverMatters ==
  Parsed /\ parser = "remote" =>
    \A other \in HiddenVariants(Given) :
      LET rule == InstructionParser_parse(other)
      IN /\ ~rule.threw
         /\ rule.type = parseResult.type
         /\ rule.target = parseResult.target

\* C30 (parsers): for every instruction markup the refactored and the
\* minified parser return the same kind, target and normalized text.
C30_RefactoredEqualsMinified ==
  /\ parser = "refactored" => parseResult = parse(Given)
  /\ parser = "minified" => parseResult = LogicParser_parse(Given)

\* ========================================= the vision pipeline, run alone
\* CONFIG.computerVision: minBoxArea, angleThreshold (degrees),
\* nmsOverlapThreshold 0.6 as 3 / 5,
\* emptyThreshold 0.015 as 15 / 1000.
minBoxArea == 100
angleThreshold == 15
nmsOverlapNum == 3
nmsOverlapDen == 5
emptyPerMille == 15

\* A contour as findContours delivers it, with what OpenCV computes of it:
\* contourArea, the vertices of approxPolyDP (rows) and their convexity,
\* the angle calculateAngle returns at each of the four vertices (degrees),
\* the moments (m00, which is the contour's area, and the centroid), the
\* longer side of boundingRect, and the dark and all pixels inside the
\* eroded mask.
ContourAt(a, x, y) ==
  [area |-> a, rows |-> 4, convex |-> TRUE, angles |-> <<90, 90, 90, 90>>,
   m00 |-> a, centerX |-> x, centerY |-> y, width |-> 10,
   contentPixels |-> IF y = 0 THEN 0 ELSE 50, totalPixels |-> 64]

SampleContours ==
  {ContourAt(a, 0, 0) : a \in {100, 200}}
  \cup {ContourAt(a, 0, 4) : a \in {100, 200}}
  \cup {ContourAt(a, 5, 4) : a \in {100, 200}}
  \cup {[ContourAt(99, 0, 0) EXCEPT !.angles = <<105, 75, 105, 75>>],
        [ContourAt(100, 0, 0) EXCEPT !.rows = 5],
        [ContourAt(100, 0, 0) EXCEPT !.angles = <<105, 75, 105, 75>>],
        [ContourAt(100, 0, 0) EXCEPT !.angles = <<106, 74, 106, 74>>],
        [ContourAt(100, 0, 0) EXCEPT !.angles = <<106, 89, 90, 75>>]}

ContourLists(most) == UNION {[1..n -> SampleContours] : n \in 0..most}

\* The calls of the try block, any of which may throw.
Steps == {"imread", "findContours", "approxPolyDP", "erode"}

Images(most) ==
  {[ready |-> rd, throwsAt |-> th, contours |-> cs] :
     rd \in BOOLEAN, th \in Steps \cup {"none"}, cs \in ContourLists(most)}

\* filterRectangularContours: the boxes of the contours that pass the area,
\* quadrilateral, angle and moments tests, in discovery order.
boxOf(contours, i) ==
  [contour |-> i, centerX |-> contours[i].centerX, centerY |-> contours[i].centerY,
   width |-> contours[i].width, area |-> contours[i].area]

\* Math.abs(angle - 90) < threshold at every vertex: the gate without its
\* boundary.
isRectangleStrict(angles) ==
  \A idx \in 1..4 : Abs(angles[idx] - 90) < angleThreshold

\* points.every(... Math.abs(angle - 90) <= config.angleThreshold)
isRectangle(angles) ==
  \A idx \in 1..4 : Abs(angles[idx] - 90) <= angleThreshold

isBox(c) ==
  /\ ~(c.area < minBoxArea)
  /\ c.rows = 4 /\ c.convex
  /\ isRectangle(c.angles)
  /\ c.m00 # 0

filterRectangularContours(contours) ==
  LET F[n \in 0..Len(contours)] ==
        IF n = 0 THEN <<>>
        ELSE IF isBox(contours[n]) THEN Append(F[n - 1], boxOf(contours, n))
        ELSE F[n - 1]
  IN F[Len(contours)]

\* distance < otherBox.width * overlapThreshold, squared on both sides.
tooClose(box, otherBox) ==
  nmsOverlapDen * nmsOverlapDen
      * ((box.centerX - otherBox.centerX) * (box.centerX - otherBox.centerX)
         + (box.centerY - otherBox.centerY) * (box.centerY - otherBox.centerY))
    < nmsOverlapNum * nmsOverlapNum * otherBox.width * otherBox.width

\* The array left as it is.
unsorted(bxs) == bxs

\* boxes.sort((a, b) => b.area - a.area)
sortByArea(bxs) ==
  ArraySort(bxs, [p \in ElementsOf(bxs) \X ElementsOf(bxs) |-> p[2].area - p[1].area])

\* Greedy suppression against the boxes kept so far.
applyNMSKeptOnly(bxs) ==
  LET sorted == sortByArea(bxs)
      F[n \in 0..Len(sorted)] ==
        IF n = 0 THEN <<>>
        ELSE IF \E k \in 1..Len(F[n - 1]) : tooClose(sorted[n], F[n - 1][k])
        THEN F[n - 1]
        ELSE Append(F[n - 1], sorted[n])
  IN F[Len(sorted)]

\* applyNMS: boxes.filter((box, index) => !boxes.slice(0, index).some(...)) on
\* the sorted array: a box is compared with every box before it.
applyNMS(bxs) ==
  LET sorted == sortByArea(bxs)
      F[n \in 0..Len(sorted)] ==
        IF n = 0 THEN <<>>
        ELSE IF \E k \in 1..(n - 1) : tooClose(sorted[n], sorted[k])
        THEN F[n - 1]
        ELSE Append(F[n - 1], sorted[n])
  IN F[Len(sorted)]

\* contentRatio < emptyThreshold; 0 / 0 is NaN and compares false.
isEmptyBox(c) ==
  /\ c.totalPixels # 0
  /\ 1000 * c.contentPixels < emptyPerMille * c.totalPixels

countEmptyBoxes(contours, bxs) ==
  Cardinality({k \in 1..Len(bxs) : isEmptyBox(contours[bxs[k].contour])})

\* The first contour of at least the minimum area, the first one
\* approxPolyDP is called on; 0 when there is none.
firstApprox(contours) ==
  LET large == {i \in 1..Len(contours) : ~(contours[i].area < minBoxArea)}
  IN IF large = {} THEN 0 ELSE SetMin(large)

\* Whether the try block throws: imread and findContours are always called,
\* approxPolyDP only on a contour of the minimum area, erode only when a box
\* is left to classify.
throws(img, bxs) ==
  \/ img.throwsAt \in {"imread", "findContours"}
  \/ img.throwsAt = "approxPolyDP" /\ firstApprox(img.contours) # 0
  \/ img.throwsAt = "erode" /\ bxs # <<>>

\* The try block of analyze: what it returns, or that one of its calls
\* threw.
tryAnalyze(img) ==
  LET found == filterRectangularContours(img.contours)
      bxs == applyNMS(found)
  IN IF throws(img, bxs) THEN [threw |-> TRUE, rectangles |-> <<>>, boxes |-> <<>>]
     ELSE [threw |-> FALSE, rectangles |-> found, boxes |-> bxs,
           empty |-> countEmptyBoxes(img.contours, bxs), total |-> Len(bxs)]

NothingFound ==
  [threw |-> FALSE, rectangles |-> <<>>, boxes |-> <<>>, empty |-> 0, total |-> 0]

analyzeWithoutCatch(img) ==
  IF ~img.ready THEN NothingFound
  ELSE tryAnalyze(img)

\* ComputerVision.analyze: not ready gives {0, 0}; the catch turns a throw
\* of the try block into {0, 0}; finally frees the matrices.
ComputerVision_analyze(img) ==
  IF ~img.ready THEN NothingFound
  ELSE IF tryAnalyze(img).threw THEN NothingFound
  ELSE tryAnalyze(img)

\* CV.analyze of the minified script: the same steps written in line.
CV_analyze(img) ==
  IF ~img.ready THEN NothingFound
  ELSE LET found == filterRectangularContours(img.contours)
           bxs == applyNMS(found)
       IN IF throws(img, bxs) THEN NothingFound
          ELSE [threw |-> FALSE, rectangles |-> found, boxes |-> bxs,
                empty |-> countEmptyBoxes(img.contours, bxs), total |-> Len(bxs)]

\* ------------------------------------------------------- native buffers
\* The contours the filter loop takes with contours.get(i): none when the
\* run throws before the loop, up to the one approxPolyDP throws on, else all.
visited(img) ==
  IF img.throwsAt \in {"imread", "findContours"} THEN 0
  ELSE IF img.throwsAt = "approxPolyDP" /\ firstApprox(img.contours) # 0
  THEN firstApprox(img.contours)
  ELSE Len(img.contours)

\* The polygons allocated with new cv.Mat() for approxPolyDP: one for each
\* visited contour of the minimum area.
approximated(img) ==
  Cardinality({i \in 1..visited(img) : ~(img.contours[i].area < minBoxArea)})

\* The matrices handed to matrixManager.add: source, grayscale, kernel,
\* blackhat, two thresholds, their conjunction, the contour vector and the
\* hierarchy; then for each box mask, contourVector, erodedMask and
\* erosionKernel before erode, thresholded and maskedContent after it.
tracked(img) ==
  LET bxs == applyNMS(filterRectangularContours(img.contours))
  IN IF img.throwsAt = "imread" THEN 0
     ELSE IF img.throwsAt = "findContours" THEN 9
     ELSE IF img.throwsAt = "approxPolyDP" /\ firstApprox(img.contours) # 0 THEN 9
     ELSE IF img.throwsAt = "erode" /\ bxs # <<>> THEN 9 + 4
     ELSE 9 + 6 * Len(bxs)

NoMatrices ==
  [acquired |-> [tracked |-> 0, contour |-> 0, approxPoly |-> 0],
   released |-> [tracked |-> 0, contour |-> 0, approxPoly |-> 0]]

\* What a run of analyze acquires and what it has released when it returns:
\* matrixManager.free() deletes every tracked matrix; approxPoly.delete() is
\* called on either branch after approxPolyDP returned; no statement deletes
\* the matrix contours.get(i) returned.
matricesOf(img) ==
  IF ~img.ready THEN NoMatrices
  ELSE [acquired |-> [tracked |-> tracked(img), contour |-> visited(img),
                      approxPoly |-> approximated(img)],
        released |-> [tracked |-> tracked(img), contour |-> 0,
                      approxPoly |->
                        IF img.throwsAt = "approxPolyDP" /\ firstApprox(img.contours) # 0
                        THEN approximated(img) - 1
                        ELSE approximated(img)]]

InitVision ==
  /\ imageIn \in Images(MaxShapes)
  /\ vscript = "none"
  /\ rectangles = <<>>
  /\ boxes = <<>>
  /\ analyzed = [threw |-> FALSE, empty |-> 0, total |-> 0]
  /\ matrices = NoMatrices
  /\ suppressed = [done |-> FALSE, boxes |-> <<>>]
  /\ ParseIdle
  /\ DecideIdle
  /\ LocalIdle
  /\ RemoteIdle

\* image.onload of the refactored script calls ComputerVision.analyze(image).
AnalyzeRefactored ==
  /\ vscript = "none"
  /\ vscript' = "refactored"
  /\ LET a == ComputerVision_analyze(imageIn)
     IN /\ rectangles' = a.rectangles
        /\ boxes' = a.boxes
        /\ analyzed' = IF a.threw THEN [threw |-> TRUE]
                       ELSE [threw |-> FALSE, empty |-> a.empty, total |-> a.total]
  /\ matrices' = matricesOf(imageIn)
  /\ UNCHANGED <<imageIn, suppressed, parseVars, decideVars, localVars, remoteVars>>

\* img.onload of the minified script calls CV.analyze(img).
AnalyzeMinified ==
  /\ vscript = "none"
  /\ vscript' = "minified"
  /\ LET a == CV_analyze(imageIn)
     IN /\ rectangles' = a.rectangles
        /\ boxes' = a.boxes
        /\ analyzed' = IF a.threw THEN [threw |-> TRUE]
                       ELSE [threw |-> FALSE, empty |-> a.empty, total |-> a.total]
  /\ matrices' = matricesOf(imageIn)
  /\ UNCHANGED <<imageIn, suppressed, parseVars, decideVars, localVars, remoteVars>>

\* Suppression applied to the boxes a finished run left.
SuppressAgain ==
  /\ vscript # "none"
  /\ ~suppressed.done
  /\ suppressed' = [done |-> TRUE, boxes |-> applyNMS(boxes)]
  /\ UNCHANGED <<imageIn, vscript, rectangles, boxes, analyzed, matrices,
                 parseVars, decideVars, localVars, remoteVars>>

NextVision == AnalyzeRefactored \/ AnalyzeMinified \/ SuppressAgain

SpecVision == InitVision /\ [][NextVision]_vars

\* ------------------------------------------------- what the claims speak of
Analyzed == vscript # "none"

\* The pipeline ran to its end: OpenCV ready and no call threw.
Reached == Analyzed /\ imageIn.ready /\ imageIn.throwsAt = "none"

Found == sortByArea(filterRectangularContours(imageIn.contours))

Kept == ElementsOf(boxes)

ZeroResult == [threw |-> FALSE, empty |-> 0, total |-> 0]

\* C16: analyze never throws; without OpenCV, or when a call of the pipeline
\* throws, it returns {empty: 0, total: 0}.
C16_AnalyzeNeverThrows ==
  Analyzed =>
    /\ ~analyzed.threw
    /\ (~imageIn.ready \/ imageIn.throwsAt # "none") => analyzed = ZeroResult

C16_Witness ==
  /\ Analyzed
  /\ imageIn.ready
  /\ imageIn.throwsAt = "erode"
  /\ Found # <<>>
  /\ analyzed = ZeroResult

\* C19: suppression goes through the shapes in descending area order and
\* keeps a shape exactly when it is not within extent x overlapFactor of a
\* shape already kept; a discarded shape never suppresses a later one.
C19_SuppressionAgainstKeptOnly ==
  Reached => boxes = applyNMSKeptOnly(filterRectangularContours(imageIn.contours))

C21_EveryBufferReleasedOnce ==
  Analyzed =>
    \A kind \in {"tracked", "contour", "approxPoly"} :
      matrices.released[kind] = matrices.acquired[kind]

\* C22: among the contours of at least the minimum area whose polygon has
\* four vertices and is convex, the gate lets through exactly those whose
\* four angles all lie within the tolerance of 90 degrees, the boundary
\* included: 90 + tolerance passes, 90 + tolerance + 1 does not, and one
\* vertex outside rejects the shape.
Gated(i) == \E k \in 1..Len(rectangles) : rectangles[k].contour = i

C22_AngleGateBoundaryInclusive ==
  Reached =>
    \A i \in 1..Len(imageIn.contours) :
      LET c == imageIn.contours[i]
      IN (c.area >= minBoxArea /\ c.rows = 4 /\ c.convex) =>
           /\ Gated(i) <=> \A v \in 1..4 : /\ c.angles[v] >= 90 - angleThreshold
                                            /\ c.angles[v] <= 90 + angleThreshold
           /\ (\E v \in 1..4 : c.angles[v] = 90 + angleThreshold + 1) => ~Gated(i)
           /\ (\A v \in 1..4 : c.angles[v] \in {90 - angleThreshold, 90 + angleThreshold})
                => Gated(i)

\* A shape with angles of exactly 90 + tolerance was accepted next to one
\* rejected for a single vertex of 90 + tolerance + 1.
C22_Witness ==
  /\ Reached
  /\ \E i, j \in 1..Len(imageIn.contours) :
       /\ imageIn.contours[i].area >= minBoxArea
       /\ imageIn.contours[i].angles[1] = 90 + angleThreshold
       /\ Gated(i)
       /\ imageIn.contours[j].area >= minBoxArea
       /\ imageIn.contours[j].angles = <<106, 89, 90, 75>>
       /\ ~Gated(j)

\* C29: suppression applied to its own output returns the same boxes in the
\* same order; its output is in descending order of area and every box of
\* it is a box of the input, taken once.
C29_SuppressionIdempotent ==
  /\ suppressed.done => suppressed.boxes = boxes
  /\ Analyzed =>
       /\ \A i, j \in 1..Len(boxes) : i < j => boxes[i].area >= boxes[j].area
       /\ \A i, j \in 1..Len(boxes) : i # j => boxes[i].contour # boxes[j].contour
       /\ \A i \in 1..Len(boxes) : \E k \in 1..Len(rectangles) : rectangles[k] = boxes[i]

\* Three shapes found smaller first, one of them suppressed, and the second
\* application changed nothing.
C29_Witness ==
  /\ Reached
  /\ suppressed.done
  /\ Len(rectangles) = 3
  /\ rectangles[1].area < rectangles[2].area
  /\ Len(boxes) = 2
  /\ suppressed.boxes = boxes

====
